---- MODULE Spec2Model ----
(***************************************************************************)
(* zj-cal: the calendar core (src/src/calendar.rs) as TLA+ operators, and  *)
(* one specification per group of functions that applies them to inputs    *)
(* drawn from bounded sets.                                                *)
(*                                                                         *)
(* A NaiveDateTime is the number of seconds since 2024-01-01 00:00:00, a   *)
(* NaiveDate the number of days since 2024-01-01.  An Option<T> is the     *)
(* record [some |-> BOOLEAN, v |-> T].  A String is a TLA+ string.         *)
(***************************************************************************)
EXTENDS Integers, Sequences, FiniteSets, TLC

VARIABLES
    predCall,     \* one Event with the arguments and results of its predicates
    filterCall,   \* one call of filter_future
    fmtCall,      \* one call of fmt_relative_time
    offsetCall,   \* one call of parse_utc_offset
    icsCall,      \* one call of parse_ics
    state,        \* the plugin's State (main.rs)
    commands,     \* the run_command calls whose RunCommandResult is to come
    timers,       \* the set_timeout calls whose Timer event is to come
    trace,        \* what the plugin has done so far: counts and the last event
    DEBUG_SAVE_ICS  \* the build-time flag of main.rs

\* The plugin and its host.
hostVars == <<state, commands, timers, trace, DEBUG_SAVE_ICS>>

vars == <<predCall, filterCall, fmtCall, offsetCall, icsCall, hostVars>>

\* The frame of a function that a specification does not exercise.
Idle == [pc |-> "idle"]

\* The plugin is not loaded: the specifications of the pure functions.
HostIdle ==
    /\ state = Idle
    /\ commands = Idle
    /\ timers = 0
    /\ trace = Idle
    /\ DEBUG_SAVE_ICS = FALSE

---------------------------------------------------------------------------
(* Option<T> *)

None == [some |-> FALSE, v |-> 0]

Some(x) == [some |-> TRUE, v |-> x]

---------------------------------------------------------------------------
(* chrono: NaiveDateTime, NaiveDate, Duration *)

SecsPerMin == 60

SecsPerHour == 60 * 60

SecsPerDay == 24 * 60 * 60

\* NaiveDateTime::date
DateOf(t) == t \div SecsPerDay

\* Timelike::hour, minute, second
HourOf(t) == (t % SecsPerDay) \div SecsPerHour

MinuteOf(t) == (t % SecsPerHour) \div SecsPerMin

SecondOf(t) == t % SecsPerMin

\* NaiveDate::and_hms_opt(h, m, s).unwrap()
AndHms(d, h, m, s) == d * SecsPerDay + h * SecsPerHour + m * SecsPerMin + s

\* Rust's integer division truncates toward zero; TLA+'s \div floors.
TruncDiv(a, b) == IF a >= 0 THEN a \div b ELSE -((-a) \div b)

\* event_dt.signed_duration_since(now_dt).num_minutes()
NumMinutes(event_dt, now_dt) == TruncDiv(event_dt - now_dt, SecsPerMin)

---------------------------------------------------------------------------
(* struct Event.  location is left out: only is_video_call reads it. *)

Event(summary, start, end, is_all_day) ==
    [summary |-> summary, start |-> start, end |-> end, is_all_day |-> is_all_day]

\* Event::is_in_progress, compared at minute resolution: a start of 10:00:30
\* would count as started at 10:00:15.
IsInProgressByMinute(e, now) ==
    /\ e.end.some
    /\ e.start \div SecsPerMin <= now \div SecsPerMin
    /\ now < e.end.v

\* Event::is_in_progress
IsInProgress(e, now) ==
    e.end.some /\ (e.start <= now /\ now < e.end.v)

\* Event::is_active_on with the all-day end date included.
IsActiveOnEndInclusive(e, date) ==
    LET start_date == DateOf(e.start) IN
    IF e.end.some /\ e.is_all_day
    THEN start_date <= date /\ date <= DateOf(e.end.v)
    ELSE IF e.end.some
    THEN LET day_start == AndHms(date, 0, 0, 0) IN
         start_date <= date /\ e.end.v > day_start
    ELSE start_date = date

\* Event::is_active_on with a timed event shown on its start date only.
IsActiveOnStartDateOnly(e, date) ==
    LET start_date == DateOf(e.start) IN
    IF e.end.some /\ e.is_all_day
    THEN start_date <= date /\ date < DateOf(e.end.v)
    ELSE start_date = date

\* Event::is_active_on with the end of a timed event compared with the end of
\* the day.
IsActiveOnAfterDayEnd(e, date) ==
    LET start_date == DateOf(e.start) IN
    IF e.end.some /\ e.is_all_day
    THEN start_date <= date /\ date < DateOf(e.end.v)
    ELSE IF e.end.some
    THEN LET day_end == AndHms(date + 1, 0, 0, 0) IN
         start_date <= date /\ e.end.v > day_end
    ELSE start_date = date

\* Event::is_active_on
IsActiveOn(e, date) ==
    LET start_date == DateOf(e.start) IN
    IF e.end.some /\ e.is_all_day
    THEN start_date <= date /\ date < DateOf(e.end.v)
    ELSE IF e.end.some
    THEN LET day_start == AndHms(date, 0, 0, 0) IN
         start_date <= date /\ e.end.v > day_start
    ELSE start_date = date

---------------------------------------------------------------------------
(* The predicates of one Event: SpecEvent *)

\* Dates 0 .. MaxDay are drawn.
MaxDay == 3

PredDates == 0 .. MaxDay

\* Times of day: 00:00:00, 01:00:00, 10:00:00, 10:00:15, 10:00:30, 23:00:00.
PredTimes ==
    { AndHms(0, 0, 0, 0), AndHms(0, 1, 0, 0), AndHms(0, 10, 0, 0),
      AndHms(0, 10, 0, 15), AndHms(0, 10, 0, 30), AndHms(0, 23, 0, 0) }

PredInstants == { d * SecsPerDay + t : d \in PredDates, t \in PredTimes }

PredEnds == {None} \cup { Some(t) : t \in PredInstants }

\* parse_ics gives an all-day event a start at midnight; a timed one any start.
PredEvents ==
    { Event("e", s, en, FALSE) : s \in PredInstants, en \in PredEnds }
    \cup { Event("e", AndHms(d, 0, 0, 0), en, TRUE) : d \in PredDates, en \in PredEnds }

InitEvent ==
    /\ predCall \in { [pc |-> "call", ev |-> e, now |-> n, date |-> d,
                       called |-> {}, in_progress |-> FALSE, active_on |-> FALSE] :
                      e \in PredEvents, n \in PredInstants, d \in PredDates }
    /\ filterCall = Idle
    /\ fmtCall = Idle
    /\ offsetCall = Idle
    /\ icsCall = Idle
    /\ HostIdle

\* ev.is_in_progress(now)
CallIsInProgress ==
    /\ predCall.pc = "call"
    /\ "is_in_progress" \notin predCall.called
    /\ predCall' = [predCall EXCEPT
                      !.called = @ \cup {"is_in_progress"},
                      !.in_progress = IsInProgress(predCall.ev, predCall.now)]
    /\ UNCHANGED <<filterCall, fmtCall, offsetCall, icsCall, hostVars>>

\* ev.is_active_on(date)
CallIsActiveOn ==
    /\ predCall.pc = "call"
    /\ "is_active_on" \notin predCall.called
    /\ predCall' = [predCall EXCEPT
                      !.called = @ \cup {"is_active_on"},
                      !.active_on = IsActiveOn(predCall.ev, predCall.date)]
    /\ UNCHANGED <<filterCall, fmtCall, offsetCall, icsCall, hostVars>>

NextEvent == CallIsInProgress \/ CallIsActiveOn

SpecEvent == InitEvent /\ [][NextEvent]_vars

\* C3: is_in_progress(now) is true iff the event has an end and
\* start <= now < end, as full instants: it is false for an event without an
\* end and false at any instant before the literal start, seconds included.
C3_InProgressIffStartedNotEnded ==
    (predCall.pc = "call" /\ "is_in_progress" \in predCall.called) =>
        LET e == predCall.ev
            now == predCall.now
        IN  /\ predCall.in_progress <=>
                   (e.end.some /\ e.start <= now /\ now < e.end.v)
            /\ ~e.end.some => ~predCall.in_progress
            /\ now < e.start => ~predCall.in_progress

\* A start of 10:00:30 asked about at 10:00:15 of the same day, before the
\* end: not in progress.
C3_Witness ==
    /\ predCall.pc = "call"
    /\ "is_in_progress" \in predCall.called
    /\ predCall.ev.start = AndHms(1, 10, 0, 30)
    /\ predCall.now = AndHms(1, 10, 0, 15)
    /\ predCall.ev.end = Some(AndHms(1, 23, 0, 0))
    /\ ~predCall.in_progress

\* C4: an all-day event with an end is active on exactly the dates of
\* [start date, end date): not on the day before the start, not on the end
\* date.
C4_AllDayActiveOnHalfOpenRange ==
    (/\ predCall.pc = "call"
     /\ "is_active_on" \in predCall.called
     /\ predCall.ev.is_all_day
     /\ predCall.ev.end.some) =>
        LET first == DateOf(predCall.ev.start)
            last == DateOf(predCall.ev.end.v)
            d == predCall.date
        IN  /\ predCall.active_on <=> (d \in first .. (last - 1))
            /\ d = last => ~predCall.active_on
            /\ d = first - 1 => ~predCall.active_on

\* An all-day event of days 0, 1 and 2 (end date 3) asked about its end date.
C4_Witness ==
    /\ predCall.pc = "call"
    /\ "is_active_on" \in predCall.called
    /\ predCall.ev.is_all_day
    /\ predCall.ev.start = AndHms(0, 0, 0, 0)
    /\ predCall.ev.end = Some(AndHms(3, 0, 0, 0))
    /\ predCall.date = 3
    /\ ~predCall.active_on

\* The event crosses exactly one midnight: it ends on the day after its start
\* date, strictly after that day's midnight.
Overnight(e) ==
    /\ e.end.some
    /\ DateOf(e.end.v) = DateOf(e.start) + 1
    /\ e.end.v > (DateOf(e.start) + 1) * SecsPerDay

\* C5: a timed event with an end is active on a date iff its start date is on
\* or before the date and its end is strictly after the date's midnight; one
\* that crosses a midnight is active on its start day and the next day only;
\* an event with no end is active on its start date only.
C5_TimedActiveOnOverlappedDates ==
    (predCall.pc = "call" /\ "is_active_on" \in predCall.called) =>
        LET e == predCall.ev
            d == predCall.date
            start_date == DateOf(e.start)
        IN  /\ (~e.is_all_day /\ e.end.some) =>
                   (predCall.active_on <=>
                        (start_date <= d /\ e.end.v > d * SecsPerDay))
            /\ (~e.is_all_day /\ Overnight(e)) =>
                   (predCall.active_on <=> d \in {start_date, start_date + 1})
            /\ ~e.end.some => (predCall.active_on <=> d = start_date)

\* 23:00 of day 1 to 01:00 of day 2, asked about day 2: active.
C5_Witness ==
    /\ predCall.pc = "call"
    /\ "is_active_on" \in predCall.called
    /\ ~predCall.ev.is_all_day
    /\ predCall.ev.start = AndHms(1, 23, 0, 0)
    /\ predCall.ev.end = Some(AndHms(2, 1, 0, 0))
    /\ predCall.date = 2
    /\ predCall.active_on

\* C19: a timed event that is in progress at now is active on the date of
\* now.
C19_InProgressIsActiveToday ==
    (/\ predCall.pc = "call"
     /\ {"is_in_progress", "is_active_on"} \subseteq predCall.called
     /\ ~predCall.ev.is_all_day
     /\ predCall.date = DateOf(predCall.now)
     /\ predCall.in_progress) =>
        predCall.active_on

\* 23:00 of day 1 to 01:00 of day 2, asked at midnight of day 2 and about
\* day 2: in progress and active.
C19_Witness ==
    /\ predCall.pc = "call"
    /\ {"is_in_progress", "is_active_on"} \subseteq predCall.called
    /\ ~predCall.ev.is_all_day
    /\ predCall.ev.start = AndHms(1, 23, 0, 0)
    /\ predCall.ev.end = Some(AndHms(2, 1, 0, 0))
    /\ predCall.now = AndHms(2, 0, 0, 0)
    /\ predCall.date = 2
    /\ predCall.in_progress
    /\ predCall.active_on

---------------------------------------------------------------------------
(* filter_future *)

\* events.sort_by(|a, b| a.start.cmp(&b.start)) left out: the list stays in
\* its input order.
SortByStartSkipped(events) == events

\* Insert e behind every event of the sorted list whose start is not later.
RECURSIVE InsertByStart(_, _)
InsertByStart(sorted, e) ==
    IF sorted = <<>> THEN <<e>>
    ELSE IF Head(sorted).start <= e.start
         THEN <<Head(sorted)>> \o InsertByStart(Tail(sorted), e)
         ELSE <<e>> \o sorted

RECURSIVE InsertAll(_, _)
InsertAll(sorted, rest) ==
    IF rest = <<>> THEN sorted
    ELSE InsertAll(InsertByStart(sorted, Head(rest)), Tail(rest))

\* events.sort_by(|a, b| a.start.cmp(&b.start)): slice::sort_by is a stable
\* sort, so events of equal start keep their order.
SortByStart(events) == InsertAll(<<>>, events)

\* The retain closure with an event that ends exactly now still kept.
RetainEndInclusive(e, now) == e.start >= now \/ (e.end.some /\ e.end.v >= now)

\* The closure of events.retain with the test of the end left out.
RetainFutureOnly(e, now) == e.start >= now

\* The closure of events.retain: |e| e.start >= now || e.end.is_some_and(|end| end > now)
Retain(e, now) == e.start >= now \/ (e.end.some /\ e.end.v > now)

\* Vec::truncate(limit)
Truncate(events, limit) ==
    IF limit >= Len(events) THEN events ELSE SubSeq(events, 1, limit)

FilterFuture(events, current_time, limit) ==
    LET sorted == SortByStart(events)
        retained == IF current_time.some
                    THEN SelectSeq(sorted, LAMBDA e : Retain(e, current_time.v))
                    ELSE sorted
    IN  Truncate(retained, limit)

---------------------------------------------------------------------------
(* Calls of filter_future: SpecFilter *)

\* Lists of up to MaxEvents events are drawn, and limits up to MaxEvents + 1.
MaxEvents == 3

\* 08:00, 10:00 and 14:00 of day 0.
FilterStarts == { AndHms(0, 8, 0, 0), AndHms(0, 10, 0, 0), AndHms(0, 14, 0, 0) }

\* No end, 09:00 or 11:00: an end may lie before its start.
FilterEnds == { None, Some(AndHms(0, 9, 0, 0)), Some(AndHms(0, 11, 0, 0)) }

\* Unknown, 09:00, 10:00, 10:30 or 11:00.
FilterNows ==
    { None, Some(AndHms(0, 9, 0, 0)), Some(AndHms(0, 10, 0, 0)),
      Some(AndHms(0, 10, 30, 0)), Some(AndHms(0, 11, 0, 0)) }

\* The lists of n events; an event's summary is its place in the list.
FilterLists(n) ==
    { [i \in 1 .. n |-> Event(i, ss[i], es[i], FALSE)] :
      ss \in [1 .. n -> FilterStarts], es \in [1 .. n -> FilterEnds] }

InitFilter ==
    /\ \E n \in 0 .. MaxEvents :
         filterCall \in { [pc |-> "call", events |-> evs, current_time |-> now,
                           limit |-> l, result |-> <<>>] :
                          evs \in FilterLists(n), now \in FilterNows,
                          l \in 0 .. (MaxEvents + 1) }
    /\ predCall = Idle
    /\ fmtCall = Idle
    /\ offsetCall = Idle
    /\ icsCall = Idle
    /\ HostIdle

\* filter_future(events, current_time, limit)
CallFilterFuture ==
    /\ filterCall.pc = "call"
    /\ filterCall' = [filterCall EXCEPT
                        !.pc = "done",
                        !.result = FilterFuture(filterCall.events,
                                                filterCall.current_time,
                                                filterCall.limit)]
    /\ UNCHANGED <<predCall, fmtCall, offsetCall, icsCall, hostVars>>

NextFilter == CallFilterFuture

SpecFilter == InitFilter /\ [][NextFilter]_vars

\* The places of the input events that a given now lets through.
KeptPlaces(events, now) ==
    { i \in 1 .. Len(events) :
        events[i].start >= now \/ (events[i].end.some /\ events[i].end.v > now) }

\* The places of the input events the result holds.
ResultPlaces == { filterCall.result[i].summary : i \in 1 .. Len(filterCall.result) }

\* Every event of the result is the input event of its place, once.
ResultFromInput ==
    /\ \A i \in 1 .. Len(filterCall.result) :
         /\ filterCall.result[i].summary \in 1 .. Len(filterCall.events)
         /\ filterCall.result[i] = filterCall.events[filterCall.result[i].summary]
    /\ Cardinality(ResultPlaces) = Len(filterCall.result)

\* C1: with a now and a limit of at least the list's length, the result holds
\* exactly the input events with start >= now, or with an end and end > now.
C1_RetainsFutureAndUnfinished ==
    (/\ filterCall.pc = "done"
     /\ filterCall.current_time.some
     /\ filterCall.limit >= Len(filterCall.events)) =>
        /\ ResultFromInput
        /\ ResultPlaces = KeptPlaces(filterCall.events, filterCall.current_time.v)

\* At 10:30: an event of 10:00 to 11:00 is kept; one of 08:00 to 09:00 and one
\* of 08:00 without an end are dropped.
C1_Witness ==
    /\ filterCall.pc = "done"
    /\ filterCall.current_time = Some(AndHms(0, 10, 30, 0))
    /\ filterCall.limit = 3
    /\ Len(filterCall.events) = 3
    /\ filterCall.events[1].start = AndHms(0, 10, 0, 0)
    /\ filterCall.events[1].end = Some(AndHms(0, 11, 0, 0))
    /\ filterCall.events[2].start = AndHms(0, 8, 0, 0)
    /\ filterCall.events[2].end = Some(AndHms(0, 9, 0, 0))
    /\ filterCall.events[3].start = AndHms(0, 8, 0, 0)
    /\ filterCall.events[3].end = None
    /\ ResultPlaces = {1}

\* Input place i comes before input place j in the sorted list: an earlier
\* start, or the same start and an earlier place.
Before(events, i, j) ==
    \/ events[i].start < events[j].start
    \/ (events[i].start = events[j].start /\ i < j)

Min(a, b) == IF a <= b THEN a ELSE b

\* C2: the result is ascending by start with equal starts in input order, has
\* at most limit events, and is the first min(limit, k) of the k events that
\* the sorted and filtered list holds (all of them when now is absent); an
\* empty input gives an empty result.
C2_SortedStableTruncated ==
    filterCall.pc = "done" =>
        LET events == filterCall.events
            result == filterCall.result
            kept == IF filterCall.current_time.some
                    THEN KeptPlaces(events, filterCall.current_time.v)
                    ELSE 1 .. Len(events)
        IN  /\ ResultFromInput
            /\ \A i, j \in 1 .. Len(result) :
                 i < j => Before(events, result[i].summary, result[j].summary)
            /\ Len(result) <= filterCall.limit
            /\ Len(result) = Min(filterCall.limit, Cardinality(kept))
            /\ ResultPlaces \subseteq kept
            /\ \A i \in ResultPlaces : \A j \in kept \ ResultPlaces :
                 Before(events, i, j)
            /\ events = <<>> => result = <<>>

\* Three events all kept, the first the latest and the other two of one
\* start, cut to a limit of 2: the result is the second, then the third.
C2_Witness ==
    /\ filterCall.pc = "done"
    /\ filterCall.current_time = None
    /\ filterCall.limit = 2
    /\ Len(filterCall.events) = 3
    /\ filterCall.events[1].start = AndHms(0, 14, 0, 0)
    /\ filterCall.events[2].start = AndHms(0, 8, 0, 0)
    /\ filterCall.events[3].start = AndHms(0, 8, 0, 0)
    /\ Len(filterCall.result) = 2
    /\ filterCall.result[1].summary = 2
    /\ filterCall.result[2].summary = 3

\* C18: with a now and a limit of at least the list's length, filter_future
\* keeps an event iff its start is not before now or is_in_progress holds of
\* it at now: an event in progress is kept, and a kept event that started
\* before now is in progress.
C18_RetentionAgreesWithInProgress ==
    (/\ filterCall.pc = "done"
     /\ filterCall.current_time.some
     /\ filterCall.limit >= Len(filterCall.events)) =>
        \A i \in 1 .. Len(filterCall.events) :
            LET e == filterCall.events[i]
                now == filterCall.current_time.v
            IN  /\ i \in ResultPlaces <=> (e.start >= now \/ IsInProgress(e, now))
                /\ IsInProgress(e, now) => i \in ResultPlaces
                /\ (i \in ResultPlaces /\ e.start < now) => IsInProgress(e, now)

\* At 10:30: an event of 10:00 to 11:00 is in progress and kept, one of 14:00
\* is kept, one of 08:00 to 09:00 is dropped.
C18_Witness ==
    /\ filterCall.pc = "done"
    /\ filterCall.current_time = Some(AndHms(0, 10, 30, 0))
    /\ filterCall.limit >= 3
    /\ Len(filterCall.events) = 3
    /\ filterCall.events[1].start = AndHms(0, 8, 0, 0)
    /\ filterCall.events[1].end = Some(AndHms(0, 9, 0, 0))
    /\ IsInProgress(filterCall.events[2], AndHms(0, 10, 30, 0))
    /\ filterCall.events[3].start = AndHms(0, 14, 0, 0)
    /\ ResultPlaces = {2, 3}

---------------------------------------------------------------------------
(* The time display: fmt_time, fmt_datetime, fmt_relative_time *)

\* format!("{:02}", n)
Pad2(n) == IF n < 10 THEN "0" \o ToString(n) ELSE ToString(n)

\* fmt_time
FmtTime(hour, minute, use_12h) ==
    IF ~use_12h THEN Pad2(hour) \o ":" \o Pad2(minute)
    ELSE LET hour_12 == IF hour = 0 THEN 12
                        ELSE IF hour <= 11 THEN hour
                        ELSE IF hour = 12 THEN 12
                        ELSE hour - 12
             period == IF hour <= 11 THEN "am" ELSE "pm"
         IN  ToString(hour_12) \o ":" \o Pad2(minute) \o " " \o period

\* The months of 2024, the year of day 0: "%b" in lower case, and the lengths.
MonthAbbr ==
    << "jan", "feb", "mar", "apr", "may", "jun",
       "jul", "aug", "sep", "oct", "nov", "dec" >>

MonthLength == << 31, 29, 31, 30, 31, 30, 31, 31, 30, 31, 30, 31 >>

\* The month (1 .. 12) and day of month (from 1) of the day that lies `rest`
\* days after the first of month `month`.
RECURSIVE MonthAndDay(_, _)
MonthAndDay(rest, month) ==
    IF rest < MonthLength[month] THEN [month |-> month, day |-> rest + 1]
    ELSE MonthAndDay(rest - MonthLength[month], month + 1)

\* dt.format("%b %-d").to_string().to_lowercase()
FmtMonthDay(dt) ==
    LET md == MonthAndDay(DateOf(dt), 1)
    IN  MonthAbbr[md.month] \o " " \o ToString(md.day)

\* fmt_datetime
FmtDatetime(dt, use_12h) ==
    LET is_all_day == HourOf(dt) = 0 /\ MinuteOf(dt) = 0
        date == FmtMonthDay(dt)
    IN  IF is_all_day THEN date
        ELSE date \o " " \o FmtTime(HourOf(dt), MinuteOf(dt), use_12h)

\* The range test with 24 h itself excluded.
OutsideDayBefore24h(minutes) == ~(minutes \in 0 .. (24 * 60 - 1))

\* !(0..=24 * 60).contains(&minutes)
OutsideDay(minutes) == ~(minutes \in 0 .. (24 * 60))

\* Rounding to 5 that always rounds down.
RoundToFiveDown(minutes) == (minutes \div 5) * 5

\* ((minutes + 2) / 5) * 5
RoundToFive(minutes) == ((minutes + 2) \div 5) * 5

\* The hour part with the half hour kept up to 45 minutes past.
RelativeHoursHalfTo45(minutes) ==
    LET whole_hours == minutes \div 60
        remainder == minutes % 60
    IN  IF remainder \in 20 .. 45 THEN ToString(whole_hours) \o ".5 hrs"
        ELSE LET hours == IF remainder > 45 THEN whole_hours + 1 ELSE whole_hours
             IN  IF hours = 1 THEN "1 hr" ELSE ToString(hours) \o " hrs"

\* The `relative` string of the 56..=299 arm
RelativeHours(minutes) ==
    LET whole_hours == minutes \div 60
        remainder == minutes % 60
    IN  IF remainder \in 20 .. 40 THEN ToString(whole_hours) \o ".5 hrs"
        ELSE LET hours == IF remainder > 40 THEN whole_hours + 1 ELSE whole_hours
             IN  IF hours = 1 THEN "1 hr" ELSE ToString(hours) \o " hrs"

\* is_tomorrow decided by the hour of day instead of the date.
IsTomorrowByHour(event_dt, now_dt) == HourOf(event_dt) < HourOf(now_dt)

\* let is_tomorrow = event_dt.date() != now_dt.date()
IsTomorrow(event_dt, now_dt) == DateOf(event_dt) # DateOf(now_dt)

\* fmt_relative_time
FmtRelativeTime(event_dt, now_dt, use_12h) ==
    LET minutes == NumMinutes(event_dt, now_dt)
        time == FmtTime(HourOf(event_dt), MinuteOf(event_dt), use_12h)
    IN  IF OutsideDay(minutes) THEN FmtDatetime(event_dt, use_12h)
        ELSE IF minutes = 0 THEN "now"
        ELSE IF minutes \in 1 .. 9 THEN "in " \o ToString(minutes) \o " min"
        ELSE IF minutes \in 10 .. 55
             THEN "in " \o ToString(RoundToFive(minutes)) \o " min"
        ELSE IF minutes \in 56 .. 299
             THEN time \o " (" \o RelativeHours(minutes) \o ")"
        ELSE IF IsTomorrow(event_dt, now_dt) THEN "tmrw " \o time
        ELSE "today " \o time

---------------------------------------------------------------------------
(* Calls of fmt_relative_time: SpecFmt *)

\* The event lies up to MaxAheadMinutes minutes (and 59 s) after now and up
\* to MaxBehindMinutes minutes (and 59 s) before it.
MaxAheadMinutes == 1442

MaxBehindMinutes == 10

\* now is what parse_datetime made of "YYYY-MM-DD HH:MM", so its seconds are
\* 0: jan 15 at 00:00, 10:00, 20:00 and 23:59, and jan 31 at 23:30.
FmtNows ==
    { AndHms(14, 0, 0, 0), AndHms(14, 10, 0, 0), AndHms(14, 20, 0, 0),
      AndHms(14, 23, 59, 0), AndHms(30, 23, 30, 0) }

\* An event's start may carry seconds (DTSTART:20240115T100030).
FmtSeconds == {0, 59}

FmtDeltas ==
    { m * SecsPerMin + s : m \in 0 .. MaxAheadMinutes, s \in FmtSeconds }
    \cup { -(m * SecsPerMin + s) : m \in 0 .. MaxBehindMinutes, s \in FmtSeconds }

InitFmt ==
    /\ fmtCall \in { [pc |-> "call", event_dt |-> now + d, now_dt |-> now,
                      use_12h |-> h, result |-> ""] :
                     now \in FmtNows, d \in FmtDeltas, h \in BOOLEAN }
    /\ predCall = Idle
    /\ filterCall = Idle
    /\ offsetCall = Idle
    /\ icsCall = Idle
    /\ HostIdle

\* fmt_relative_time(event_dt, now_dt, use_12h)
CallFmtRelativeTime ==
    /\ fmtCall.pc = "call"
    /\ fmtCall' = [fmtCall EXCEPT
                     !.pc = "done",
                     !.result = FmtRelativeTime(fmtCall.event_dt, fmtCall.now_dt,
                                                fmtCall.use_12h)]
    /\ UNCHANGED <<predCall, filterCall, offsetCall, icsCall, hostVars>>

NextFmt == CallFmtRelativeTime

SpecFmt == InitFmt /\ [][NextFmt]_vars

\* The signed whole minutes from now to the event of the call.
CallMinutes == NumMinutes(fmtCall.event_dt, fmtCall.now_dt)

\* fmt_time of the event's own time of day.
CallTime == FmtTime(HourOf(fmtCall.event_dt), MinuteOf(fmtCall.event_dt), fmtCall.use_12h)

\* C6: fmt_relative_time returns the absolute label fmt_datetime(event) when
\* the minute difference is negative or above 1440, and a phrase other than
\* the absolute label when it is in 0 .. 1440.
C6_AbsoluteOutsideNext24h ==
    fmtCall.pc = "done" =>
        LET absolute == FmtDatetime(fmtCall.event_dt, fmtCall.use_12h)
        IN  /\ (CallMinutes < 0 \/ CallMinutes > 1440) => fmtCall.result = absolute
            /\ (0 <= CallMinutes /\ CallMinutes <= 1440) => fmtCall.result # absolute
            /\ CallMinutes = 1441 => fmtCall.result = absolute
            /\ CallMinutes = -10 => fmtCall.result = absolute

\* 24 h and 59 s ahead is 1440 whole minutes: still a relative phrase.
C6_Witness ==
    /\ fmtCall.pc = "done"
    /\ fmtCall.event_dt - fmtCall.now_dt = 1440 * SecsPerMin + 59
    /\ fmtCall.result # FmtDatetime(fmtCall.event_dt, fmtCall.use_12h)
    /\ fmtCall.result = "tmrw " \o CallTime

\* C7: for a difference m of 0 .. 55 minutes the label is "now" for 0,
\* "in m min" for 1 .. 9, and for 10 .. 55 "in k min" with
\* k = ((m + 2) / 5) * 5, a multiple of 5 in 10 .. 55 at most 2 away from m.
C7_MinutesExactThenNearestFive ==
    (fmtCall.pc = "done" /\ CallMinutes \in 0 .. 55) =>
        LET m == CallMinutes
            k == ((m + 2) \div 5) * 5
        IN  /\ m = 0 => fmtCall.result = "now"
            /\ m \in 1 .. 9 => fmtCall.result = "in " \o ToString(m) \o " min"
            /\ m \in 10 .. 55 =>
                 /\ fmtCall.result = "in " \o ToString(k) \o " min"
                 /\ k % 5 = 0
                 /\ k \in 10 .. 55
                 /\ m - k \in -2 .. 2
            /\ m = 12 => fmtCall.result = "in 10 min"
            /\ m = 13 => fmtCall.result = "in 15 min"

\* 13 minutes ahead: "in 15 min".
C7_Witness ==
    /\ fmtCall.pc = "done"
    /\ CallMinutes = 13
    /\ fmtCall.result = "in 15 min"

\* C8: for a difference m of 56 .. 299 minutes, with h = m / 60 and
\* r = m % 60, the hour part is "h.5 hrs" for 20 <= r <= 40, else the whole
\* number h + 1 for r > 40 and h for r < 20, written "1 hr" for exactly 1 and
\* "N hrs" otherwise; the number shown is never 0 nor 0.5.
C8_HoursWholeOrHalf ==
    (fmtCall.pc = "done" /\ CallMinutes \in 56 .. 299) =>
        LET m == CallMinutes
            h == m \div 60
            r == m % 60
            whole == IF r > 40 THEN h + 1 ELSE h
            part == IF 20 <= r /\ r <= 40 THEN ToString(h) \o ".5 hrs"
                    ELSE IF whole = 1 THEN "1 hr"
                    ELSE ToString(whole) \o " hrs"
        IN  /\ fmtCall.result = CallTime \o " (" \o part \o ")"
            /\ (20 <= r /\ r <= 40) => h >= 1
            /\ ~(20 <= r /\ r <= 40) => whole >= 1
            /\ part \notin {"0 hrs", "0.5 hrs", "1 hrs"}
            /\ m = 56 => part = "1 hr"
            /\ m = 80 => part = "1.5 hrs"
            /\ m = 105 => part = "2 hrs"

\* 105 minutes ahead of 10:00: "11:45 am (2 hrs)".
C8_Witness ==
    /\ fmtCall.pc = "done"
    /\ CallMinutes = 105
    /\ fmtCall.now_dt = AndHms(14, 10, 0, 0)
    /\ fmtCall.result = "11:45 am (2 hrs)"

\* C9: for a difference of 300 .. 1440 minutes the label is the event's time
\* of day behind "tmrw" when the event's date differs from now's date and
\* behind "today" otherwise, and "tmrw" is given only to an event on the day
\* after now's date.
C9_TodayOrTomorrow ==
    (fmtCall.pc = "done" /\ CallMinutes \in 300 .. 1440) =>
        LET event_date == DateOf(fmtCall.event_dt)
            now_date == DateOf(fmtCall.now_dt)
        IN  /\ event_date # now_date => fmtCall.result = "tmrw " \o CallTime
            /\ event_date = now_date => fmtCall.result = "today " \o CallTime
            /\ fmtCall.result = "tmrw " \o CallTime => event_date = now_date + 1

\* From 23:30 of jan 31 to 09:30 of feb 1: "tmrw 9:30 am".
C9_Witness ==
    /\ fmtCall.pc = "done"
    /\ fmtCall.now_dt = AndHms(30, 23, 30, 0)
    /\ fmtCall.event_dt = AndHms(31, 9, 30, 0)
    /\ fmtCall.result = "tmrw 9:30 am"

---------------------------------------------------------------------------
(* parse_utc_offset.  A &str is a sequence of characters, each a string of  *)
(* one character ("U+00E9" stands for e with an acute accent); its bytes   *)
(* are those of its UTF-8 encoding.                                         *)

\* char::len_utf8: the model's characters are ASCII but for U+00E9, which
\* takes 2 bytes.
Utf8Len(c) == IF c = "U+00E9" THEN 2 ELSE 1

\* str::len: the length in bytes.
RECURSIVE ByteLen(_)
ByteLen(s) == IF s = <<>> THEN 0 ELSE Utf8Len(Head(s)) + ByteLen(Tail(s))

\* char::is_whitespace, over the model's characters.
IsWhitespace(c) == c = " "

RECURSIVE TrimStart(_)
TrimStart(s) ==
    IF s # <<>> /\ IsWhitespace(Head(s)) THEN TrimStart(Tail(s)) ELSE s

RECURSIVE TrimEnd(_)
TrimEnd(s) ==
    IF s # <<>> /\ IsWhitespace(s[Len(s)])
    THEN TrimEnd(SubSeq(s, 1, Len(s) - 1))
    ELSE s

\* str::trim
Trim(s) == TrimEnd(TrimStart(s))

\* str::is_char_boundary: byte offset i is where a character starts, or the end.
IsCharBoundary(s, i) ==
    \E n \in 0 .. Len(s) : ByteLen(SubSeq(s, 1, n)) = i

\* &s[a..b] for byte offsets a <= b that are character boundaries: the
\* characters that lie in between.
ByteSlice(s, a, b) ==
    LET first == CHOOSE n \in 0 .. Len(s) : ByteLen(SubSeq(s, 1, n)) = a
        last == CHOOSE n \in 0 .. Len(s) : ByteLen(SubSeq(s, 1, n)) = b
    IN  SubSeq(s, first + 1, last)

DigitChars == << "0", "1", "2", "3", "4", "5", "6", "7", "8", "9" >>

IsDigit(c) == \E d \in 1 .. 10 : DigitChars[d] = c

DigitValue(c) == (CHOOSE d \in 1 .. 10 : DigitChars[d] = c) - 1

\* The value of a non-empty run of decimal digits.
RECURSIVE DecimalValue(_)
DecimalValue(digits) ==
    IF digits = <<>> THEN 0
    ELSE DecimalValue(SubSeq(digits, 1, Len(digits) - 1)) * 10
         + DigitValue(digits[Len(digits)])

\* str::parse::<i32>().ok(): an optional + or -, then one or more decimal
\* digits and nothing else.  (No field of the model is long enough to
\* overflow an i32.)
ParseI32(s) ==
    LET signed == s # <<>> /\ Head(s) \in {"+", "-"}
        digits == IF signed THEN Tail(s) ELSE s
    IN  IF digits = <<>> \/ \E i \in 1 .. Len(digits) : ~IsDigit(digits[i])
        THEN None
        ELSE IF signed /\ Head(s) = "-" THEN Some(-DecimalValue(digits))
        ELSE Some(DecimalValue(digits))

\* What a call came to: a returned Option<i32>, or a panic.
Returned(option) == [outcome |-> "return", value |-> option]

Panicked == [outcome |-> "panic", value |-> None]

\* The returned value with the sign left out.
OffsetMinutesUnsigned(sign, hours, minutes) == hours * 60 + minutes

\* sign * (hours * 60 + minutes)
OffsetMinutes(sign, hours, minutes) == sign * (hours * 60 + minutes)

\* parse_utc_offset
ParseUtcOffset(str) ==
    LET s == Trim(str) IN
    IF ByteLen(s) # 5 THEN Returned(None)
    ELSE IF Head(s) \notin {"+", "-"} THEN Returned(None)
    ELSE LET sign == IF Head(s) = "+" THEN 1 ELSE -1 IN
         \* &s[1..3] panics when byte 1 or 3 is inside a character
         IF ~IsCharBoundary(s, 1) \/ ~IsCharBoundary(s, 3) THEN Panicked
         ELSE LET hours == ParseI32(ByteSlice(s, 1, 3)) IN
              IF ~hours.some THEN Returned(None)
              ELSE LET minutes == ParseI32(ByteSlice(s, 3, 5)) IN
                   IF ~minutes.some THEN Returned(None)
                   ELSE Returned(Some(OffsetMinutes(sign, hours.v, minutes.v)))

---------------------------------------------------------------------------
(* Calls of parse_utc_offset: SpecOffset *)

\* Besides every token sHHMM, every string of up to MaxTokenChars characters
\* of TokenChars is drawn.
MaxTokenChars == 6

TokenChars == { "+", "-", "5", " ", "x", "U+00E9" }

Digit == { DigitChars[d] : d \in 1 .. 10 }

\* The tokens sHHMM: a sign and four decimal digits.
SignedTokens ==
    { <<sg, h1, h2, m1, m2>> :
      sg \in {"+", "-"}, h1 \in Digit, h2 \in Digit, m1 \in Digit, m2 \in Digit }

OtherTokens == UNION { [1 .. n -> TokenChars] : n \in 0 .. MaxTokenChars }

InitOffset ==
    /\ offsetCall \in { [pc |-> "call", s |-> t, result |-> Returned(None)] :
                        t \in SignedTokens \cup OtherTokens }
    /\ predCall = Idle
    /\ filterCall = Idle
    /\ fmtCall = Idle
    /\ icsCall = Idle
    /\ HostIdle

\* parse_utc_offset(s)
CallParseUtcOffset ==
    /\ offsetCall.pc = "call"
    /\ offsetCall' = [offsetCall EXCEPT
                        !.pc = "done",
                        !.result = ParseUtcOffset(offsetCall.s)]
    /\ UNCHANGED <<predCall, filterCall, fmtCall, icsCall, hostVars>>

NextOffset == CallParseUtcOffset

SpecOffset == InitOffset /\ [][NextOffset]_vars

\* The token of the call is sHHMM: a sign and four decimal digits.
TokenIsSigned ==
    /\ Len(offsetCall.s) = 5
    /\ offsetCall.s[1] \in {"+", "-"}
    /\ \A i \in 2 .. 5 : IsDigit(offsetCall.s[i])

\* HH * 60 + MM of a token sHHMM.
TokenMagnitude ==
    (DigitValue(offsetCall.s[2]) * 10 + DigitValue(offsetCall.s[3])) * 60
    + DigitValue(offsetCall.s[4]) * 10 + DigitValue(offsetCall.s[5])

\* The sign read back from a number of minutes.
SignOf(v) == IF v < 0 THEN "-" ELSE "+"

Abs(v) == IF v < 0 THEN -v ELSE v

\* C10, as stated: for every token sHHMM parse_utc_offset returns
\* sign * (HH * 60 + MM), and the token's sign and magnitude are read back
\* from the result.
C10_SignAndMagnitudeRecovered ==
    (offsetCall.pc = "done" /\ TokenIsSigned) =>
        /\ offsetCall.result.outcome = "return"
        /\ offsetCall.result.value.some
        /\ LET v == offsetCall.result.value.v
               sign == IF offsetCall.s[1] = "+" THEN 1 ELSE -1
           IN  /\ v = sign * TokenMagnitude
               /\ Abs(v) = TokenMagnitude
               /\ SignOf(v) = offsetCall.s[1]

\* C10, amended: for every token sHHMM parse_utc_offset returns
\* sign * (HH * 60 + MM); the magnitude is the result's absolute value, and
\* the sign is the result's sign unless the magnitude is 0 ("-0000" and
\* "+0000" both give 0).
C10_SignRecoveredUnlessZero ==
    (offsetCall.pc = "done" /\ TokenIsSigned) =>
        /\ offsetCall.result.outcome = "return"
        /\ offsetCall.result.value.some
        /\ LET v == offsetCall.result.value.v
               sign == IF offsetCall.s[1] = "+" THEN 1 ELSE -1
           IN  /\ v = sign * TokenMagnitude
               /\ Abs(v) = TokenMagnitude
               /\ TokenMagnitude # 0 => SignOf(v) = offsetCall.s[1]
               /\ TokenMagnitude = 0 => v = 0

\* "-0530" gives -330.
C10_Witness ==
    /\ offsetCall.pc = "done"
    /\ offsetCall.s = << "-", "0", "5", "3", "0" >>
    /\ offsetCall.result = Returned(Some(-330))

\* The token of the call, with the white space around it trimmed, is sHHMM.
TrimmedIsSigned ==
    LET t == Trim(offsetCall.s)
    IN  /\ Len(t) = 5
        /\ t[1] \in {"+", "-"}
        /\ \A i \in 2 .. 5 : IsDigit(t[i])

\* C11: parse_utc_offset returns absence for every token that is not a sign
\* followed by four decimal digits: a wrong length, a first character that is
\* no sign, or a hour or minute field with a character that is no digit, a
\* + or - included.  (Read in the code's favour: the token is taken as
\* trimmed, and only calls that return are looked at.)
C11_AbsentUnlessSignAndFourDigits ==
    (/\ offsetCall.pc = "done"
     /\ ~TrimmedIsSigned
     /\ offsetCall.result.outcome = "return") =>
        offsetCall.result.value = None

\* C12: for every input string, strings with multi-byte characters and a
\* byte length of 5 included, parse_utc_offset ends with a value or with
\* absence: it never panics.
C12_NeverPanics ==
    offsetCall.pc = "done" => offsetCall.result.outcome = "return"

---------------------------------------------------------------------------
(* parse_ics.  The icalendar crate reads the text; the model starts from    *)
(* what it hands back: an error, or a Calendar of components.  A            *)
(* DatePerhapsTime is [kind, value]: kind "Date" with a NaiveDate, or       *)
(* "Floating", "Utc", "WithTimezone" with a date-time (the tzid of the      *)
(* last, which the code drops, is left out).                                *)

\* A date with the offset added to it like a UTC instant.
ParseDatePerhapsTimeShiftingDates(dt, utc_offset_minutes) ==
    IF dt.kind = "Date"
    THEN AndHms(dt.value, 0, 0, 0) + utc_offset_minutes * SecsPerMin
    ELSE IF dt.kind = "Utc" THEN dt.value + utc_offset_minutes * SecsPerMin
    ELSE dt.value

\* The offset added to every date-time, floating and zoned ones too.
ParseDatePerhapsTimeShiftingAll(dt, utc_offset_minutes) ==
    IF dt.kind = "Date" THEN AndHms(dt.value, 0, 0, 0)
    ELSE dt.value + utc_offset_minutes * SecsPerMin

\* parse_date_perhaps_time
ParseDatePerhapsTime(dt, utc_offset_minutes) ==
    IF dt.kind = "Floating" THEN dt.value
    ELSE IF dt.kind = "Utc" THEN dt.value + utc_offset_minutes * SecsPerMin
    ELSE IF dt.kind = "WithTimezone" THEN dt.value
    ELSE AndHms(dt.value, 0, 0, 0)

\* The closure of filter_map: the Event of a component, or None.
EventOfComponent(component, utc_offset_minutes) ==
    IF component.type # "Event" THEN <<>>
    ELSE IF ~component.start.some THEN <<>>
    ELSE LET summary == IF component.summary.some THEN component.summary.v
                        ELSE "(no title)"
             start_raw == component.start.v
             is_all_day == start_raw.kind = "Date"
             start == ParseDatePerhapsTime(start_raw, utc_offset_minutes)
             end == IF component.end.some
                    THEN Some(ParseDatePerhapsTime(component.end.v, utc_offset_minutes))
                    ELSE None
         IN  << Event(summary, start, end, is_all_day) >>

\* calendar.components.iter().filter_map(..).collect()
RECURSIVE FilterMapComponents(_, _)
FilterMapComponents(components, utc_offset_minutes) ==
    IF components = <<>> THEN <<>>
    ELSE EventOfComponent(Head(components), utc_offset_minutes)
         \o FilterMapComponents(Tail(components), utc_offset_minutes)

\* Result<Vec<Event>, String>
Ok(events) == [ok |-> TRUE, events |-> events, error |-> ""]

Err(e) == [ok |-> FALSE, events |-> <<>>, error |-> e]

\* parse_ics
ParseIcs(data, utc_offset_minutes) ==
    IF ~data.parses THEN Err("Parse error: " \o data.error)
    ELSE Ok(FilterMapComponents(data.components, utc_offset_minutes))

---------------------------------------------------------------------------
(* Calls of parse_ics: SpecIcs *)

\* Calendars of up to MaxComponents components are drawn.
MaxComponents == 2

Date(d) == [kind |-> "Date", value |-> d]

DateTime(kind, t) == [kind |-> kind, value |-> t]

\* 00:30 and 15:00 of day 1.
IcsTimes == { AndHms(1, 0, 30, 0), AndHms(1, 15, 0, 0) }

\* No DTSTART, a date, or a floating, UTC or zoned date-time.
IcsStarts ==
    {None} \cup {Some(Date(1))}
    \cup { Some(DateTime(k, t)) : k \in {"Floating", "Utc", "WithTimezone"}, t \in IcsTimes }

\* No DTEND, a date, or 16:00 UTC of day 1.
IcsEnds == { None, Some(Date(2)), Some(DateTime("Utc", AndHms(1, 16, 0, 0))) }

Component(type, summary, start, end) ==
    [type |-> type, summary |-> summary, start |-> start, end |-> end]

IcsComponents ==
    { Component("Event", sm, st, en) :
      sm \in {None, Some("Team Standup")}, st \in IcsStarts, en \in IcsEnds }
    \cup { Component("Todo", None, None, None) }

\* What content.parse::<Calendar>() gives.
Calendar(components) == [parses |-> TRUE, components |-> components, error |-> ""]

Unparsable == [parses |-> FALSE, components |-> <<>>, error |-> "malformed"]

IcsDocuments ==
    {Unparsable}
    \cup UNION { { Calendar(cs) : cs \in [1 .. n -> IcsComponents] } : n \in 0 .. MaxComponents }

\* -05:00, UTC and +10:00.
IcsOffsets == { -300, 0, 600 }

InitIcs ==
    /\ icsCall \in { [pc |-> "call", data |-> d, utc_offset_minutes |-> o,
                      result |-> Ok(<<>>)] :
                     d \in IcsDocuments, o \in IcsOffsets }
    /\ predCall = Idle
    /\ filterCall = Idle
    /\ fmtCall = Idle
    /\ offsetCall = Idle
    /\ HostIdle

\* parse_ics(data, utc_offset_minutes)
CallParseIcs ==
    /\ icsCall.pc = "call"
    /\ icsCall' = [icsCall EXCEPT
                     !.pc = "done",
                     !.result = ParseIcs(icsCall.data, icsCall.utc_offset_minutes)]
    /\ UNCHANGED <<predCall, filterCall, fmtCall, offsetCall, hostVars>>

NextIcs == CallParseIcs

SpecIcs == InitIcs /\ [][NextIcs]_vars

\* The components of the decoded calendar that are events with a start, in
\* order: the sources of the events of the result.
IcsSources ==
    SelectSeq(icsCall.data.components,
              LAMBDA c : c.type = "Event" /\ c.start.some)

\* C15: an event of parse_ics has is_all_day = true iff its source start is a
\* bare date, and an all-day event starts at midnight, whatever the offset.
C15_AllDayIffBareDateAtMidnight ==
    (icsCall.pc = "done" /\ icsCall.data.parses) =>
        /\ icsCall.result.ok
        /\ Len(icsCall.result.events) = Len(IcsSources)
        /\ \A i \in 1 .. Len(IcsSources) :
             LET e == icsCall.result.events[i] IN
             /\ e.is_all_day <=> IcsSources[i].start.v.kind = "Date"
             /\ e.is_all_day =>
                  (HourOf(e.start) = 0 /\ MinuteOf(e.start) = 0 /\ SecondOf(e.start) = 0)

\* At offset -300, a component without a start and then an event of a bare
\* date: one all-day event, at midnight of that date.
C15_Witness ==
    /\ icsCall.pc = "done"
    /\ icsCall.utc_offset_minutes = -300
    /\ Len(icsCall.data.components) = 2
    /\ ~icsCall.data.components[1].start.some
    /\ icsCall.data.components[2].start = Some(Date(1))
    /\ Len(icsCall.result.events) = 1
    /\ icsCall.result.events[1].is_all_day
    /\ icsCall.result.events[1].start = AndHms(1, 0, 0, 0)

\* What a source instant must decode to.
Decoded(dt, utc_offset_minutes) ==
    IF dt.kind = "Utc" THEN dt.value + 60 * utc_offset_minutes
    ELSE IF dt.kind \in {"Floating", "WithTimezone"} THEN dt.value
    ELSE dt.value * SecsPerDay

\* C16: a UTC start or end becomes the UTC instant plus the offset in minutes,
\* into the previous or next date when the sum crosses midnight (15:00Z is
\* 15:00 at offset 0 and 10:00 at offset -300); a floating date-time and one
\* with a named zone pass through unchanged whatever the offset.
C16_UtcShiftedOthersUnchanged ==
    (icsCall.pc = "done" /\ icsCall.data.parses) =>
        /\ Len(icsCall.result.events) = Len(IcsSources)
        /\ \A i \in 1 .. Len(IcsSources) :
             LET e == icsCall.result.events[i]
                 src == IcsSources[i]
                 o == icsCall.utc_offset_minutes
             IN  /\ e.start = Decoded(src.start.v, o)
                 /\ e.end.some <=> src.end.some
                 /\ src.end.some => e.end.v = Decoded(src.end.v, o)
                 /\ (src.start.v = DateTime("Utc", AndHms(1, 15, 0, 0)) /\ o = 0) =>
                        (DateOf(e.start) = 1 /\ HourOf(e.start) = 15)
                 /\ (src.start.v = DateTime("Utc", AndHms(1, 15, 0, 0)) /\ o = -300) =>
                        (DateOf(e.start) = 1 /\ HourOf(e.start) = 10)

\* 00:30Z of day 1 at offset -300 is 19:30 of day 0, and the end 16:00Z is
\* 11:00 of day 1.
C16_Witness ==
    /\ icsCall.pc = "done"
    /\ icsCall.utc_offset_minutes = -300
    /\ Len(icsCall.data.components) = 1
    /\ icsCall.data.components[1].start = Some(DateTime("Utc", AndHms(1, 0, 30, 0)))
    /\ icsCall.data.components[1].end = Some(DateTime("Utc", AndHms(1, 16, 0, 0)))
    /\ Len(icsCall.result.events) = 1
    /\ icsCall.result.events[1].start = AndHms(0, 19, 30, 0)
    /\ icsCall.result.events[1].end = Some(AndHms(1, 11, 0, 0))

---------------------------------------------------------------------------
(* The plugin: main.rs.  render is left out, and with it use_12h_time: it   *)
(* prints and changes nothing.                                              *)

\* The output of `date "+%Y-%m-%d %H:%M %z"` is a sequence of words with one
\* space between them.  A word is a date "YYYY-MM-DD" (as its day number), a
\* clock "HH:MM", a UTC offset or other token (as its characters), or text
\* that is none of these.
DateWord(d) == [form |-> "YYYY-MM-DD", day |-> d]

ClockWord(h, m) == [form |-> "HH:MM", hour |-> h, minute |-> m]

TokenWord(chars) == [form |-> "token", chars |-> chars]

\* NaiveDateTime::parse_from_str with "%Y-%m-%d %H:%M": a date, one space, a
\* clock with hour 0..23 and minute 0..59, nothing else; the seconds are 0.
ParseDatetime(words) ==
    IF /\ Len(words) = 2
       /\ words[1].form = "YYYY-MM-DD"
       /\ words[2].form = "HH:MM"
       /\ words[2].hour \in 0 .. 23
       /\ words[2].minute \in 0 .. 59
    THEN Some(AndHms(words[1].day, words[2].hour, words[2].minute, 0))
    ELSE None

\* The characters of a word, as parse_utc_offset sees them: a clock is five
\* characters that start with a digit, a date ten.
WordChars(word) ==
    IF word.form = "token" THEN word.chars
    ELSE IF word.form = "HH:MM"
    THEN << DigitChars[(word.hour \div 10) + 1], DigitChars[(word.hour % 10) + 1], ":",
            DigitChars[(word.minute \div 10) + 1], DigitChars[(word.minute % 10) + 1] >>
    ELSE << "2", "0", "2", "4", "-", "0", "1", "-",
            DigitChars[((word.day + 1) \div 10) + 1], DigitChars[((word.day + 1) % 10) + 1] >>

\* Interval between timer ticks.
TIME_TICK_SECS == 30

\* The limit handle_ics_output passes to filter_future.
EVENT_LIMIT == 20

\* State::default()
DefaultState ==
    [ events |-> <<>>, ics_url |-> "", calendar_refresh_ticks |-> 0,
      error |-> None, loading |-> FALSE, permission_granted |-> FALSE,
      current_time |-> None, utc_offset_minutes |-> 0,
      ticks_until_calendar |-> 0 ]

\* A handler's effect: the new State, the commands it ran (run_command) and
\* the number of timers it set (set_timeout).
Effect(st, run, timeouts) == [state |-> st, run |-> run, timeouts |-> timeouts]

\* (refresh_interval_secs / TIME_TICK_SECS).ceil() as u32, for an interval of
\* whole seconds that is not negative.
RefreshTicks(refresh_interval_secs) ==
    (refresh_interval_secs + TIME_TICK_SECS - 1) \div TIME_TICK_SECS

\* ZellijPlugin::load (Config::from gives ics_url and refresh_interval_secs)
Load(st, config) ==
    Effect([st EXCEPT
              !.ics_url = config.ics_url,
              !.calendar_refresh_ticks = RefreshTicks(config.refresh_interval_secs),
              !.ticks_until_calendar = 0],
           <<>>, 0)

\* The PermissionRequestResult arm with the test of permission_granted left
\* out: every Granted sets a timer.
HandlePermissionRequestResultUnguarded(st, status) ==
    IF status = "Granted"
    THEN Effect([st EXCEPT !.permission_granted = TRUE], <<>>, 1)
    ELSE Effect(st, <<>>, 0)

\* update: Event::PermissionRequestResult(status)
HandlePermissionRequestResult(st, status) ==
    IF status = "Granted" /\ ~st.permission_granted
    THEN Effect([st EXCEPT !.permission_granted = TRUE], <<>>, 1)
    ELSE Effect(st, <<>>, 0)

\* State::fetch_time
FetchTime(st) == Effect([st EXCEPT !.loading = TRUE], <<"TimeFetch">>, 0)

\* update: Event::Timer(_): fetch_time(), then set_timeout(TIME_TICK_SECS)
HandleTimer(st) ==
    LET fetched == FetchTime(st)
    IN  Effect(fetched.state, fetched.run, fetched.timeouts + 1)

\* State::fetch_calendar (the path of the debug file is left out: it only
\* names the file that cat reads back)
FetchCalendar(st, debug) ==
    IF st.ics_url = "" THEN Effect(st, <<>>, 0)
    ELSE IF debug THEN Effect(st, <<"IcsFetchFile">>, 0)
    ELSE Effect(st, <<"IcsFetch">>, 0)

\* handle_ics_output with the event list emptied when the calendar does not
\* parse.
HandleIcsOutputClearingOnError(st, exit_code, stdout, error_label) ==
    LET unloading == [st EXCEPT !.loading = FALSE] IN
    IF exit_code = Some(0)
    THEN LET parsed == ParseIcs(stdout, st.utc_offset_minutes) IN
         IF parsed.ok
         THEN Effect([unloading EXCEPT
                        !.events = FilterFuture(parsed.events, st.current_time, EVENT_LIMIT),
                        !.error = None],
                     <<>>, 0)
         ELSE Effect([unloading EXCEPT !.events = <<>>, !.error = Some(parsed.error)],
                     <<>>, 0)
    ELSE Effect([unloading EXCEPT !.error = Some(error_label \o ": stderr")], <<>>, 0)

\* State::handle_ics_output (stderr is the text "stderr")
HandleIcsOutput(st, exit_code, stdout, error_label) ==
    LET unloading == [st EXCEPT !.loading = FALSE] IN
    IF exit_code = Some(0)
    THEN LET parsed == ParseIcs(stdout, st.utc_offset_minutes) IN
         IF parsed.ok
         THEN Effect([unloading EXCEPT
                        !.events = FilterFuture(parsed.events, st.current_time, EVENT_LIMIT),
                        !.error = None],
                     <<>>, 0)
         ELSE Effect([unloading EXCEPT !.error = Some(parsed.error)], <<>>, 0)
    ELSE Effect([unloading EXCEPT !.error = Some(error_label \o ": stderr")], <<>>, 0)

\* State::handle_ics_fetch
HandleIcsFetch(st, exit_code, stdout) ==
    HandleIcsOutput(st, exit_code, stdout, "Fetch failed")

\* State::handle_ics_read_file
HandleIcsReadFile(st, exit_code, stdout) ==
    HandleIcsOutput(st, exit_code, stdout, "Read failed")

\* handle_ics_fetch_file with loading left on when curl fails.
HandleIcsFetchFileKeepingLoading(st, exit_code) ==
    IF exit_code = Some(0) THEN Effect(st, <<"IcsReadFile">>, 0)
    ELSE Effect([st EXCEPT !.error = Some("Fetch failed: stderr")], <<>>, 0)

\* State::handle_ics_fetch_file
HandleIcsFetchFile(st, exit_code) ==
    IF exit_code = Some(0) THEN Effect(st, <<"IcsReadFile">>, 0)
    ELSE Effect([st EXCEPT !.loading = FALSE,
                           !.error = Some("Fetch failed: stderr")],
                <<>>, 0)

\* The lines of handle_time_fetch that read the output: rsplit_once(' ')
\* splits off the last word; current_time is assigned whatever
\* parse_datetime returns, utc_offset_minutes only a parsed offset.  The
\* words of TimeOutputs are ASCII, so parse_utc_offset returns here.
ReadTimeOutput(st, stdout) ==
    IF Len(stdout) < 2 THEN st
    ELSE LET time_str == SubSeq(stdout, 1, Len(stdout) - 1)
             offset_str == WordChars(stdout[Len(stdout)])
             offset == ParseUtcOffset(offset_str).value
         IN  [st EXCEPT
                !.current_time = ParseDatetime(time_str),
                !.utc_offset_minutes = IF offset.some THEN offset.v ELSE @]

\* State::handle_time_fetch
HandleTimeFetch(st, exit_code, stdout, debug) ==
    IF exit_code = Some(0)
    THEN LET read == ReadTimeOutput(st, stdout) IN
         IF read.ticks_until_calendar = 0
         THEN FetchCalendar(
                  [read EXCEPT !.ticks_until_calendar = read.calendar_refresh_ticks],
                  debug)
         ELSE Effect([read EXCEPT !.ticks_until_calendar = @ - 1,
                                  !.loading = FALSE],
                     <<>>, 0)
    ELSE Effect([st EXCEPT !.loading = FALSE], <<>>, 0)

\* Bounds of the plugin's run: the events the host delivers.
MaxPermissionResults == 2

MaxTimerEvents == 3

\* refresh_interval of 0 s, 30 s and 45 s: 0, 1 and 2 ticks.
RefreshIntervals == { 0, TIME_TICK_SECS, 45 }

Configs ==
    { [ics_url |-> u, refresh_interval_secs |-> r] :
      u \in {"", "https://example.org/calendar.ics"}, r \in RefreshIntervals }

\* Some(0) is success; curl exits with 22 on an HTTP error.
ExitCodes == { Some(0), Some(22) }

\* What `date` can print: a time and an offset (twice, half an hour apart and
\* in two zones), a time with an empty %z, a time with an offset that does not
\* parse, and one word.
TimeOutputs ==
    { << DateWord(1), ClockWord(10, 30), TokenWord(<< "-", "0", "5", "0", "0" >>) >>,
      << DateWord(1), ClockWord(11, 0), TokenWord(<< "+", "0", "0", "0", "0" >>) >>,
      << DateWord(1), ClockWord(10, 30) >>,
      << DateWord(1), ClockWord(11, 0), TokenWord(<< "x" >>) >>,
      << TokenWord(<< "x" >>) >> }

\* The calendars the server can send: one that does not parse, one with a
\* morning meeting and an open-ended event at 16:00 UTC, one with an all-day
\* event.
HostDocuments ==
    { Unparsable,
      Calendar(<< Component("Event", Some("Team Standup"),
                            Some(DateTime("Floating", AndHms(1, 10, 45, 0))),
                            Some(DateTime("Floating", AndHms(1, 11, 15, 0)))),
                  Component("Event", Some("Review"),
                            Some(DateTime("Utc", AndHms(1, 16, 0, 0))), None) >>),
      Calendar(<< Component("Event", Some("Holiday"), Some(Date(2)), Some(Date(3))) >>) }

\* Nothing awaits its result.
NoCommands == [ctx \in {"TimeFetch", "IcsFetch", "IcsFetchFile", "IcsReadFile"} |-> 0]

RECURSIVE Issued(_, _)
\* The commands in flight after run_command for each context of run.
Issued(pending, run) ==
    IF run = <<>> THEN pending
    ELSE Issued([pending EXCEPT ![Head(run)] = @ + 1], Tail(run))

\* The event that update was last called with.
Delivered(event, ctx, exit_code, stdout) ==
    [event |-> event, ctx |-> ctx, exit_code |-> exit_code, stdout |-> stdout]

\* The state after construction: State::default(), nothing delivered yet.
Init ==
    /\ state = DefaultState
    /\ commands = NoCommands
    /\ timers = 0
    /\ trace = [ loaded |-> FALSE, permission_results |-> 0, timer_events |-> 0,
                 set_timeouts |-> 0, time_fetches |-> 0, time_ok |-> 0,
                 fetched_at |-> 0, gaps |-> {}, last_parsed_time |-> None,
                 last |-> Delivered("none", "", None, <<>>) ]
    /\ DEBUG_SAVE_ICS \in BOOLEAN
    /\ predCall = Idle
    /\ filterCall = Idle
    /\ fmtCall = Idle
    /\ offsetCall = Idle
    /\ icsCall = Idle

\* What every handler leaves behind: the new State, the commands and timers
\* of the effect, and the counts of what was asked of the host.
Handled(effect, pending, pendingTimers, delivered) ==
    /\ state' = effect.state
    /\ commands' = Issued(pending, effect.run)
    /\ timers' = pendingTimers + effect.timeouts
    /\ trace' = [trace EXCEPT
                   !.last = delivered,
                   !.set_timeouts = @ + effect.timeouts,
                   !.time_fetches = @ + Len(SelectSeq(effect.run, LAMBDA c : c = "TimeFetch")),
                   !.permission_results =
                       IF delivered.event = "PermissionRequestResult" THEN @ + 1 ELSE @,
                   !.timer_events = IF delivered.event = "Timer" THEN @ + 1 ELSE @]
    /\ UNCHANGED <<DEBUG_SAVE_ICS, predCall, filterCall, fmtCall, offsetCall, icsCall>>

\* ZellijPlugin::load, called once, before any event
LoadPlugin ==
    /\ ~trace.loaded
    /\ \E config \in Configs :
         /\ state' = Load(state, config).state
         /\ trace' = [trace EXCEPT !.loaded = TRUE]
    /\ UNCHANGED <<commands, timers, DEBUG_SAVE_ICS,
                   predCall, filterCall, fmtCall, offsetCall, icsCall>>

\* update(Event::PermissionRequestResult(status))
PermissionRequestResult ==
    /\ trace.loaded
    /\ trace.permission_results < MaxPermissionResults
    /\ \E status \in {"Granted", "Denied"} :
         Handled(HandlePermissionRequestResult(state, status), commands, timers,
                 Delivered("PermissionRequestResult", status, None, <<>>))

\* update(Event::Timer(_)): a timer set by set_timeout fires
Timer ==
    /\ timers > 0
    /\ trace.timer_events < MaxTimerEvents
    /\ Handled(HandleTimer(state), commands, timers - 1,
               Delivered("Timer", "", None, <<>>))

\* update(Event::RunCommandResult(..)) with the context TimeFetch
TimeFetchResult ==
    /\ commands["TimeFetch"] > 0
    /\ \E exit_code \in ExitCodes, stdout \in TimeOutputs :
         LET effect == HandleTimeFetch(state, exit_code, stdout, DEBUG_SAVE_ICS)
             parsed == IF Len(stdout) < 2 THEN None
                       ELSE ParseDatetime(SubSeq(stdout, 1, Len(stdout) - 1))
             ok == exit_code = Some(0)
             fetches == ok /\ effect.run # <<>>
             tick == trace.time_ok + 1
         IN  /\ state' = effect.state
             /\ commands' = Issued([commands EXCEPT !["TimeFetch"] = @ - 1], effect.run)
             /\ trace' = [trace EXCEPT
                            !.last = Delivered("RunCommandResult", "TimeFetch",
                                               exit_code, stdout),
                            !.time_ok = IF ok THEN tick ELSE @,
                            !.fetched_at = IF fetches THEN tick ELSE @,
                            !.gaps = IF fetches /\ trace.fetched_at > 0
                                     THEN @ \cup {tick - trace.fetched_at} ELSE @,
                            !.last_parsed_time = IF ok /\ parsed.some THEN parsed ELSE @]
             /\ UNCHANGED <<timers, DEBUG_SAVE_ICS,
                            predCall, filterCall, fmtCall, offsetCall, icsCall>>

\* update(Event::RunCommandResult(..)) with the context IcsFetch
IcsFetchResult ==
    /\ commands["IcsFetch"] > 0
    /\ \E exit_code \in ExitCodes, stdout \in HostDocuments :
         Handled(HandleIcsFetch(state, exit_code, stdout),
                 [commands EXCEPT !["IcsFetch"] = @ - 1], timers,
                 Delivered("RunCommandResult", "IcsFetch", exit_code, stdout))

\* update(Event::RunCommandResult(..)) with the context IcsFetchFile
IcsFetchFileResult ==
    /\ commands["IcsFetchFile"] > 0
    /\ \E exit_code \in ExitCodes :
         Handled(HandleIcsFetchFile(state, exit_code),
                 [commands EXCEPT !["IcsFetchFile"] = @ - 1], timers,
                 Delivered("RunCommandResult", "IcsFetchFile", exit_code, <<>>))

\* update(Event::RunCommandResult(..)) with the context IcsReadFile
IcsReadFileResult ==
    /\ commands["IcsReadFile"] > 0
    /\ \E exit_code \in ExitCodes, stdout \in HostDocuments :
         Handled(HandleIcsReadFile(state, exit_code, stdout),
                 [commands EXCEPT !["IcsReadFile"] = @ - 1], timers,
                 Delivered("RunCommandResult", "IcsReadFile", exit_code, stdout))

Next ==
    \/ LoadPlugin
    \/ PermissionRequestResult
    \/ Timer
    \/ TimeFetchResult
    \/ IcsFetchResult
    \/ IcsFetchFileResult
    \/ IcsReadFileResult

Spec == Init /\ [][Next]_vars

\* C13: after any sequence of time-fetch results, current_time is the value
\* of the most recent timestamp token that parsed (None if none has): a
\* successful result whose timestamp does not parse leaves it as it was.
C13_CurrentTimeIsLastParsable ==
    state.current_time = trace.last_parsed_time

\* The last event was the result of a calendar fetch or file read.
IcsResultDelivered(delivered) ==
    /\ delivered.event = "RunCommandResult"
    /\ delivered.ctx \in {"IcsFetch", "IcsReadFile"}

\* The last event was a calendar result that exited with 0 and parses.
DecodeSucceeded(delivered) ==
    /\ IcsResultDelivered(delivered)
    /\ delivered.exit_code = Some(0)
    /\ delivered.stdout.parses

\* C14: a step that handles a calendar result that exited non-zero or does
\* not parse (parse_ics gives an error and no events) leaves the stored
\* events as they were, as does every other step but a successful decode; a
\* successful decode replaces them by the filtered events of the document.
C14_EventsReplacedOnlyOnDecode ==
    [][ LET delivered == trace'.last IN
        IF DecodeSucceeded(delivered)
        THEN LET parsed == ParseIcs(delivered.stdout, state.utc_offset_minutes) IN
             /\ parsed.ok
             /\ state'.events = FilterFuture(parsed.events, state.current_time, EVENT_LIMIT)
        ELSE /\ state'.events = state.events
             /\ (IcsResultDelivered(delivered) /\ delivered.exit_code = Some(0)) =>
                    LET parsed == ParseIcs(delivered.stdout, state.utc_offset_minutes) IN
                    /\ ~parsed.ok
                    /\ parsed.events = <<>> ]_vars

\* A document that does not parse has just been handled while events of an
\* earlier decode were stored; the error is recorded and the events remain.
C14_Witness ==
    /\ IcsResultDelivered(trace.last)
    /\ trace.last.exit_code = Some(0)
    /\ ~trace.last.stdout.parses
    /\ state.error = Some("Parse error: malformed")
    /\ state.events # <<>>

\* C17: with a calendar url and N = calendar_refresh_ticks >= 1, the first
\* successful time-fetch result issues a calendar fetch, and two consecutive
\* calendar fetches are N successful time-fetch results apart.
C17_FetchEveryNTicks ==
    (state.ics_url # "" /\ state.calendar_refresh_ticks >= 1) =>
        /\ trace.time_ok >= 1 => trace.fetched_at >= 1
        /\ trace.gaps \subseteq {state.calendar_refresh_ticks}

\* C20: at most one timer is pending; set_timeout has been called once for
\* the first Granted result, if there was one, and once for each Timer event,
\* and fetch_time once for each Timer event.
C20_OneTimerPending ==
    /\ timers <= 1
    /\ trace.set_timeouts = (IF state.permission_granted THEN 1 ELSE 0) + trace.timer_events
    /\ trace.time_fetches = trace.timer_events

\* A second Granted result has just been handled after a Timer event, with
\* one timer pending.
C20_Witness ==
    /\ trace.last.event = "PermissionRequestResult"
    /\ trace.last.ctx = "Granted"
    /\ trace.permission_results = 2
    /\ trace.timer_events >= 1
    /\ timers = 1

\* C21: with a calendar url, loading is false in every state in which no
\* command that was run awaits its result.
C21_LoadingOffWhenNothingPending ==
    (state.ics_url # "" /\ commands = NoCommands) => ~state.loading

\* After two Timer events, the failed curl of the debug build was the last
\* command to be answered: nothing is pending and loading is off.
C21_Witness ==
    /\ state.ics_url # ""
    /\ commands = NoCommands
    /\ trace.timer_events >= 2
    /\ trace.last.event = "RunCommandResult"
    /\ trace.last.ctx = "IcsFetchFile"
    /\ trace.last.exit_code = Some(22)
    /\ ~state.loading

====
